---- MODULE Spec2Model ----
(***************************************************************************)
(* A model of the particle simulators 2D_Collisions.py and my_physics2.py. *)
(*                                                                         *)
(* Numbers.  The scripts compute in floats.  Here every length and speed   *)
(* is an integer number of 1/UNIT pixels (speeds per frame), every cosine  *)
(* and sine an integer number of 1/TRIG, and every multiplication or       *)
(* division rounds to the nearest such number, ties away from zero, so     *)
(* that, as with floats, negating the operands negates the result.  An     *)
(* angle is kept as the pair (cos, sin) of its direction: the scripts      *)
(* only ever take the cosine and sine of an angle, negate it, subtract it  *)
(* from pi, or build it with atan2.                                        *)
(***************************************************************************)
EXTENDS Integers, Sequences, FiniteSets, TLC

UNIT == 1000
TRIG == 10000

Abs(a) == IF a < 0 THEN -a ELSE a
Max(a, b) == IF a >= b THEN a ELSE b

\* a / b for b > 0, rounded to the nearest integer, ties away from zero.
RDiv(a, b) == IF a >= 0 THEN (a + b \div 2) \div b
              ELSE -(((-a) + b \div 2) \div b)

RECURSIVE SqrtSearch(_, _, _)
SqrtSearch(n, lo, hi) ==
    IF lo >= hi THEN lo
    ELSE LET mid == (lo + hi + 1) \div 2
         IN  IF mid * mid <= n THEN SqrtSearch(n, mid, hi)
             ELSE SqrtSearch(n, lo, mid - 1)

\* The square root of n, rounded to the nearest integer.
Sqrt(n) == LET r == SqrtSearch(n, 0, 46340)
           IN  IF n - r * r > r THEN r + 1 ELSE r

\* The largest operand whose square, doubled, is still a machine integer.
HALFWORD == 32000

\* math.hypot(x, y), to the nearest unit (operands beyond HALFWORD are
\* scaled down first and lose precision in proportion, as a float would).
hypot(x, y) ==
    LET m == Max(Abs(x), Abs(y))
    IN  IF m <= HALFWORD THEN Sqrt(x * x + y * y)
        ELSE LET d == (m \div HALFWORD) + 1
                 xs == RDiv(x, d)
                 ys == RDiv(y, d)
             IN  d * Sqrt(xs * xs + ys * ys)

\* The direction of the vector (x, y) as (cos, sin); (0, 0) has none.
Direction(x, y) ==
    LET m == Max(Abs(x), Abs(y))
        k == HALFWORD \div m
        d == (m \div HALFWORD) + 1
        xs == IF m <= HALFWORD THEN x * k ELSE RDiv(x, d)
        ys == IF m <= HALFWORD THEN y * k ELSE RDiv(y, d)
        h == Sqrt(xs * xs + ys * ys)
    IN  [c |-> RDiv(xs * TRIG, h), s |-> RDiv(ys * TRIG, h)]

\* math.atan2(y, x): the angle of the vector (x, y); atan2(0, 0) is 0.
atan2(y, x) == IF x = 0 /\ y = 0 THEN [c |-> TRIG, s |-> 0] ELSE Direction(x, y)

\* math.cos and math.sin of an angle, in 1/TRIG.
cos(angle) == angle.c
sin(angle) == angle.s
\* -angle and math.pi - angle.
NegAngle(angle) == [c |-> angle.c, s |-> -angle.s]
PiMinusAngle(angle) == [c |-> -angle.c, s |-> angle.s]

\* x * cos(angle) or x * sin(angle): a product with a number held in 1/TRIG.
TimesTrig(x, t) == RDiv(x * t, TRIG)

\* A coefficient such as 0.8 is the fraction num/den; None is no coefficient.
None == [none |-> TRUE]
Times(x, coefficient) == RDiv(x * coefficient.num, coefficient.den)

(***************************************************************************)
(* The state.  script is the file that is run.  particles is the list      *)
(* Simulation._particles, _selected_particle an index into it (0 is None), *)
(* _running the loop flag of Simulation.run.  pc, index and other are the  *)
(* position of the run: the statement, and the particles the two loops of  *)
(* _handle_events are at.  raised is the exception that ended the run.     *)
(* lossless is the configuration: FALSE is the coefficients as the file    *)
(* sets them, TRUE is elasticity and drag set to 1.  frame counts the      *)
(* frames drawn.  last names the step taken last and before holds the      *)
(* particles as they were when it began; calls lists the collide calls of  *)
(* the frame so far, and frame_start the particles as the frame began.     *)
(***************************************************************************)
VARIABLES script, lossless, particles, _selected_particle, _running,
          pc, index, other, raised, frame, last, before, calls, frame_start
vars == <<script, lossless, particles, _selected_particle, _running,
          pc, index, other, raised, frame, last, before, calls, frame_start>>

(***************************************************************************)
(* 2D_Collisions.py: the constants.                                        *)
(***************************************************************************)
ONE == [num |-> 1, den |-> 1]
ELASTICITY_COEFFICIENT == IF lossless THEN ONE ELSE [num |-> 8, den |-> 10]
DRAG_COEFFICIENT == IF lossless THEN ONE ELSE [num |-> 9999, den |-> 10000]
MOUSE_FLING_COEFFICIENT == [num |-> 1, den |-> 10]
\* Simulation.__init__: the window, in pixels and in units.
WIDTH == 800
HEIGHT == 800
_width == WIDTH * UNIT
_height == HEIGHT * UNIT

(***************************************************************************)
(* 2D_Collisions.py: class Vector.  A velocity vector is <<x, y>> in       *)
(* units; a unit vector is <<x, y>> in 1/TRIG.                             *)
(***************************************************************************)
Vector(x, y) == <<x, y>>
magnitude(v) == hypot(v[1], v[2])
\* Vector.unit divides by magnitude(): a ZeroDivisionError for (0, 0).
unit_raises(v) == magnitude(v) = 0
unit(v) == LET d == Direction(v[1], v[2]) IN Vector(d.c, d.s)
\* Vector * Vector, the dot product, here of a velocity and a unit vector.
dot(v, u) == RDiv(v[1] * u[1] + v[2] * u[2], TRIG)
\* Vector * number, here of a unit vector and a speed.
scaled(u, k) == Vector(RDiv(u[1] * k, TRIG), RDiv(u[2] * k, TRIG))
add(v, w) == Vector(v[1] + w[1], v[2] + w[2])

(***************************************************************************)
(* 2D_Collisions.py: class Particle.                                       *)
(***************************************************************************)
\* Particle.__init__; mass is density * pi * radius ** 2, held in units of pi
\* (only sums, differences and ratios of masses are ever taken).
Particle(x, y, mass, radius, speed, angle) ==
    [x |-> x, y |-> y, mass |-> mass, radius |-> radius,
     speed_x |-> TimesTrig(speed, cos(angle)),
     speed_y |-> TimesTrig(speed, sin(angle)),
     speed |-> speed, angle |-> angle]

_recalculate_speed_components(p, new_angle, speed_coefficient) ==
    LET speed == IF speed_coefficient = None THEN p.speed
                 ELSE Times(p.speed, speed_coefficient)
    IN  [p EXCEPT !.speed = speed, !.angle = new_angle,
                  !.speed_x = TimesTrig(speed, cos(new_angle)),
                  !.speed_y = TimesTrig(speed, sin(new_angle))]

_apply_drag(p) == _recalculate_speed_components(p, p.angle, DRAG_COEFFICIENT)

\* A slip: the speed divided by the coefficient instead of multiplied.
_apply_elasticity_divides(p) ==
    _recalculate_speed_components(
        p, p.angle,
        [num |-> ELASTICITY_COEFFICIENT.den, den |-> ELASTICITY_COEFFICIENT.num])

_apply_elasticity(p) ==
    _recalculate_speed_components(p, p.angle, ELASTICITY_COEFFICIENT)

\* Particle._bounce: one branch of the if/elif chain at most.
_bounce(p, width, height) ==
    IF p.y <= p.radius
    THEN LET q == _recalculate_speed_components(p, NegAngle(p.angle), None)
         IN  _apply_elasticity([q EXCEPT !.y = q.y + 2 * (q.radius - q.y)])
    ELSE IF p.y >= height - p.radius
    THEN LET q == _recalculate_speed_components(p, NegAngle(p.angle), None)
         IN  _apply_elasticity([q EXCEPT !.y = q.y - 2 * (q.y + q.radius - height)])
    ELSE IF p.x <= p.radius
    THEN LET q == _recalculate_speed_components(p, PiMinusAngle(p.angle), None)
         IN  _apply_elasticity([q EXCEPT !.x = q.x + 2 * (q.radius - q.x)])
    ELSE IF p.x >= width - p.radius
    THEN LET q == _recalculate_speed_components(p, PiMinusAngle(p.angle), None)
         IN  _apply_elasticity([q EXCEPT !.x = q.x - 2 * (q.x + q.radius - width)])
    ELSE p

move(p, width, height) ==
    _apply_drag(_bounce([p EXCEPT !.x = p.x + p.speed_x, !.y = p.y + p.speed_y],
                        width, height))

\* A slip: the fling coefficient left out, the speed being the whole distance.
follow_without_coefficient(p, mouse_coodinates) ==
    LET dx == mouse_coodinates[1] - p.x
        dy == mouse_coodinates[2] - p.y
    IN  _recalculate_speed_components([p EXCEPT !.speed = hypot(dx, dy)],
                                      atan2(dy, dx), None)

follow(p, mouse_coodinates) ==
    LET dx == mouse_coodinates[1] - p.x
        dy == mouse_coodinates[2] - p.y
    IN  _recalculate_speed_components([p EXCEPT !.speed = hypot(dx, dy)],
                                      atan2(dy, dx), MOUSE_FLING_COEFFICIENT)

\* A slip: the difference taken the other way round.
_overlap_amount_reversed(p1, p2) ==
    hypot(p1.x - p2.x, p1.y - p2.y) - (p1.radius + p2.radius)

_overlap_amount(p1, p2) ==
    (p1.radius + p2.radius) - hypot(p1.x - p2.x, p1.y - p2.y)

_is_colliding(p1, p2) == _overlap_amount(p1, p2) > 0

\* A slip: only the particle the method is called on is moved.
_push_apart_self_only(p1, p2) ==
    LET dist == (p1.radius + p2.radius) - hypot(p1.x - p2.x, p1.y - p2.y)
        collision_angle == atan2(p1.y - p2.y, p1.x - p2.x)
    IN  <<[p1 EXCEPT !.x = p1.x + TimesTrig(dist, cos(collision_angle)),
                     !.y = p1.y + TimesTrig(dist, sin(collision_angle))],
          p2>>

\* Particle._push_apart: each particle is moved by the whole overlap.
_push_apart(p1, p2) ==
    LET dist == _overlap_amount(p1, p2)
        collision_angle == atan2(p1.y - p2.y, p1.x - p2.x)
    IN  <<[p1 EXCEPT !.x = p1.x + TimesTrig(dist, cos(collision_angle)),
                     !.y = p1.y + TimesTrig(dist, sin(collision_angle))],
          [p2 EXCEPT !.x = p2.x - TimesTrig(dist, cos(collision_angle)),
                     !.y = p2.y - TimesTrig(dist, sin(collision_angle))]>>

\* Particle.collide raises ZeroDivisionError at n_vec.unit() when the two
\* centers coincide.
collide_raises(p1, p2) ==
    _is_colliding(p1, p2) /\ unit_raises(Vector(p1.x - p2.x, p1.y - p2.y))

\* Particle.collide, as <<self, p2>> after the call.
collide(p1, p2) ==
    IF ~_is_colliding(p1, p2) THEN <<p1, p2>>
    ELSE
    LET n_vec == Vector(p1.x - p2.x, p1.y - p2.y)
        t_vec == Vector(-n_vec[2], n_vec[1])
        unit_n_vec == unit(n_vec)
        unit_t_vec == unit(t_vec)
        p1_initial_vec == Vector(p1.speed_x, p1.speed_y)
        p2_initial_vec == Vector(p2.speed_x, p2.speed_y)
        p1_initial_norm_comp == dot(p1_initial_vec, unit_n_vec)
        p1_tan_comp == dot(p1_initial_vec, unit_t_vec)
        p2_initial_norm_comp == dot(p2_initial_vec, unit_n_vec)
        p2_tan_comp == dot(p2_initial_vec, unit_t_vec)
        p1_final_norm_comp ==
            RDiv(p1_initial_norm_comp * (p1.mass - p2.mass)
                   + 2 * p2.mass * p2_initial_norm_comp,
                 p1.mass + p2.mass)
        p2_final_norm_comp ==
            RDiv(p2_initial_norm_comp * (p2.mass - p1.mass)
                   + 2 * p1.mass * p1_initial_norm_comp,
                 p1.mass + p2.mass)
        p1_final_vec == add(scaled(unit_n_vec, p1_final_norm_comp),
                            scaled(unit_t_vec, p1_tan_comp))
        p2_final_vec == add(scaled(unit_n_vec, p2_final_norm_comp),
                            scaled(unit_t_vec, p2_tan_comp))
        q1 == _recalculate_speed_components(
                  [p1 EXCEPT !.speed = magnitude(p1_final_vec)],
                  atan2(p1_final_vec[2], p1_final_vec[1]), None)
        q2 == _recalculate_speed_components(
                  [p2 EXCEPT !.speed = magnitude(p2_final_vec)],
                  atan2(p2_final_vec[2], p2_final_vec[1]), None)
    IN  _push_apart(_apply_elasticity(q1), _apply_elasticity(q2))

(***************************************************************************)
(* my_physics2.py: the constants and class Particle.  A particle is        *)
(* [x, y, radius, angle, speed]; the angle is measured with the y axis     *)
(* pointing up, the position with the y axis pointing down.                *)
(***************************************************************************)
SPEED_COEFFICIENT == [num |-> 1, den |-> 10]
mp2_DRAG_COEFFICIENT == IF lossless THEN ONE ELSE [num |-> 9999, den |-> 10000]
mp2_ELASTICITY_COEFFICIENT == IF lossless THEN ONE ELSE [num |-> 999, den |-> 1000]
\* GRAVITY = 0.000002 pixels is less than one unit; it is held as one unit, the
\* least acceleration there is here, so that it is not rounded away.
GRAVITY == 1

mp2_Particle(x, y, radius, angle, speed) ==
    [x |-> x, y |-> y, radius |-> radius, angle |-> angle, speed |-> speed]

\* angle + math.pi / 2.
PlusHalfPi(angle) == [c |-> -angle.s, s |-> angle.c]
\* -angle + 2 * tangent_angle, by the angle-difference formulas.
Reflected(angle, tangent_angle) ==
    LET cos2t == RDiv(tangent_angle.c * tangent_angle.c
                        - tangent_angle.s * tangent_angle.s, TRIG)
        sin2t == RDiv(2 * tangent_angle.c * tangent_angle.s, TRIG)
    IN  atan2(sin2t * angle.c - cos2t * angle.s,
              cos2t * angle.c + sin2t * angle.s)

mp2_apply_elasticity(p) ==
    [p EXCEPT !.speed = Times(p.speed, mp2_ELASTICITY_COEFFICIENT)]

mp2_apply_drag(p) == [p EXCEPT !.speed = Times(p.speed, mp2_DRAG_COEFFICIENT)]

\* cos(-pi/2) * GRAVITY is 0 and sin(-pi/2) * GRAVITY is -GRAVITY.
mp2_apply_gravity(p) ==
    LET particle_x_component == TimesTrig(p.speed, cos(p.angle))
        particle_y_component == TimesTrig(p.speed, sin(p.angle))
        new_x_comp == particle_x_component + 0
        new_y_comp == particle_y_component + (-GRAVITY)
    IN  [p EXCEPT !.angle = atan2(new_y_comp, new_x_comp),
                  !.speed = hypot(new_x_comp, new_y_comp)]

mp2_move(p) ==
    LET q == mp2_apply_gravity(mp2_apply_drag(p))
    IN  [q EXCEPT !.x = q.x + TimesTrig(q.speed, cos(q.angle)),
                  !.y = q.y + TimesTrig(q.speed, -sin(q.angle))]

\* Particle.bounce: the x walls first, then the y walls.
mp2_bounce(p, width, height) ==
    LET q == IF p.x <= p.radius
             THEN mp2_apply_elasticity(
                      [p EXCEPT !.angle = PiMinusAngle(p.angle),
                                !.x = p.x + 2 * (p.radius - p.x)])
             ELSE IF p.x >= width - p.radius
             THEN mp2_apply_elasticity(
                      [p EXCEPT !.angle = PiMinusAngle(p.angle),
                                !.x = p.x - 2 * (p.x + p.radius - width)])
             ELSE p
    IN  IF q.y <= q.radius
        THEN mp2_apply_elasticity(
                 [q EXCEPT !.angle = NegAngle(q.angle),
                           !.y = q.y + 2 * (q.radius - q.y)])
        ELSE IF q.y >= height - q.radius
        THEN mp2_apply_elasticity(
                 [q EXCEPT !.angle = NegAngle(q.angle),
                           !.y = q.y - 2 * (q.y + q.radius - height)])
        ELSE q

\* Particle.collide, as <<self, p2>> after the call.
mp2_collide(p1, p2) ==
    LET dx == p1.x - p2.x
        dy == -(p1.y - p2.y)
        dist == hypot(dx, dy)
        angle_collision == atan2(dy, dx)
        tangent_angle == PlusHalfPi(angle_collision)
        overlap_amnt == p1.radius + p2.radius - dist
    IN  IF dist <= p1.radius + p2.radius
        THEN <<mp2_apply_elasticity(
                 [p1 EXCEPT !.angle = Reflected(p1.angle, tangent_angle),
                            !.speed = p2.speed,
                            !.x = p1.x + RDiv(cos(angle_collision) * overlap_amnt, 2 * TRIG),
                            !.y = p1.y - RDiv(sin(angle_collision) * overlap_amnt, 2 * TRIG)]),
               mp2_apply_elasticity(
                 [p2 EXCEPT !.angle = Reflected(p2.angle, tangent_angle),
                            !.speed = p1.speed,
                            !.x = p2.x - RDiv(cos(angle_collision) * overlap_amnt, 2 * TRIG),
                            !.y = p2.y + RDiv(sin(angle_collision) * overlap_amnt, 2 * TRIG)])>>
        ELSE <<p1, p2>>

mp2_follow(p, mouse_coords) ==
    LET dx == mouse_coords[1] - p.x
        dy == -(mouse_coords[2] - p.y)
    IN  [p EXCEPT !.speed = Times(hypot(dx, dy), SPEED_COEFFICIENT),
                  !.angle = atan2(dy, dx)]

\* Simulation._select_particle: the last particle the click is in stays selected.
RECURSIVE mp2_select_particle(_, _, _, _)
mp2_select_particle(ps, mouse_coodinates, k, selected) ==
    IF k > Len(ps) THEN selected
    ELSE LET dx == mouse_coodinates[1] - ps[k].x
             dy == mouse_coodinates[2] - ps[k].y
             dist == hypot(dx, dy)
         IN  mp2_select_particle(ps, mouse_coodinates, k + 1,
                                 IF dist <= ps[k].radius THEN k ELSE selected)

(***************************************************************************)
(* 2D_Collisions.py: class Simulation.                                     *)
(***************************************************************************)
\* Simulation._select_particle: returns at the first particle the click is in.
RECURSIVE _select_particle(_, _, _, _)
_select_particle(ps, coords, k, selected) ==
    IF k > Len(ps) THEN selected
    ELSE LET dx == coords[1] - ps[k].x
             dy == coords[2] - ps[k].y
             distance == hypot(dx, dy)
         IN  IF distance <= ps[k].radius THEN k
             ELSE _select_particle(ps, coords, k + 1, selected)

_deselect_particle(selected) == IF selected # 0 THEN 0 ELSE selected

(***************************************************************************)
(* The inputs: the particles the constructors may draw, the events         *)
(* pygame.event.get() may return in one frame, and the places              *)
(* pygame.mouse.get_pos() may report.                                      *)
(***************************************************************************)
NumParticles == 3
MaxFrames == 2

Px(n) == n * UNIT
East == [c |-> TRIG, s |-> 0]
West == [c |-> -TRIG, s |-> 0]
UpLeft == [c |-> -6 * (TRIG \div 10), s |-> -8 * (TRIG \div 10)]
DownRight == [c |-> 6 * (TRIG \div 10), s |-> 8 * (TRIG \div 10)]
Opposite(angle) == [c |-> -angle.c, s |-> -angle.s]

\* A particle of either script, from the same draw.
NewParticle(s, x, y, density, radius, speed, angle) ==
    IF s = "2D_Collisions"
    THEN Particle(Px(x), Px(y), density * radius * radius, Px(radius), speed, angle)
    ELSE mp2_Particle(Px(x), Px(y), Px(radius), angle, speed)

Scripts == {"2D_Collisions", "my_physics2"}
Radii == {10}
Origins == {<<10, 10>>, <<10, 400>>, <<400, 400>>}
Steps == {<<0, 0>>, <<15, 0>>, <<20, 0>>, <<30, 0>>}
Speeds == {0, 500}
Headings == {East, UpLeft}
MousePositions == {<<Px(12), Px(12)>>, <<Px(30), Px(400)>>, <<Px(600), Px(600)>>}

\* The particles of a run: a row that starts at origin, step apart, the
\* headings alternating when alternate.
Row(s, radius, origin, step, speed, heading, alternate) ==
    [k \in 1..NumParticles |->
        NewParticle(s, origin[1] + (k - 1) * step[1], origin[2] + (k - 1) * step[2],
                    1, radius, speed,
                    IF alternate /\ k % 2 = 0 THEN Opposite(heading) ELSE heading)]

QUIT == [type |-> "QUIT"]
MOUSEBUTTONUP == [type |-> "MOUSEBUTTONUP"]
MOUSEBUTTONDOWN(pos) == [type |-> "MOUSEBUTTONDOWN", pos |-> pos]
EventLists ==
    {<<>>, <<QUIT>>, <<MOUSEBUTTONUP>>}
    \cup {<<MOUSEBUTTONDOWN(m)>> : m \in MousePositions}
    \cup {<<QUIT, MOUSEBUTTONDOWN(m)>> : m \in MousePositions}

(***************************************************************************)
(* Simulation.run and Simulation._handle_events, a step at a time.         *)
(***************************************************************************)
N == Len(particles)
NoStep == [op |-> "none"]

Init ==
    /\ script \in Scripts
    /\ lossless = FALSE
    /\ \E n \in 1..NumParticles, radius \in Radii, origin \in Origins, step \in Steps,
          speed \in Speeds, heading \in Headings, alternate \in BOOLEAN :
          particles = SubSeq(Row(script, radius, origin, step, speed, heading, alternate),
                             1, n)
    /\ _selected_particle = 0
    /\ _running = FALSE
    /\ pc = "run"
    /\ index = 0
    /\ other = 0
    /\ raised = "none"
    /\ frame = 0
    /\ last = NoStep
    /\ before = particles
    /\ calls = <<>>
    /\ frame_start = particles

\* run(): self._running = True.
Run ==
    /\ pc = "run"
    /\ _running' = TRUE
    /\ pc' = "while"
    /\ last' = [op |-> "run"]
    /\ before' = particles
    /\ UNCHANGED <<script, lossless, particles, _selected_particle, index, other,
                   raised, frame, calls, frame_start>>

\* while self._running: leave the loop, or begin a frame.
While ==
    /\ pc = "while"
    /\ frame < MaxFrames
    /\ pc' = IF _running THEN "events" ELSE "stopped"
    /\ last' = [op |-> "while"]
    /\ before' = particles
    /\ calls' = <<>>
    /\ frame_start' = particles
    /\ UNCHANGED <<script, lossless, particles, _selected_particle, _running,
                   index, other, raised, frame>>

\* One event of 2D_Collisions.py's loop, on <<_running, _selected_particle>>.
handle_event(st, event) ==
    LET running == IF event.type = "QUIT" THEN FALSE ELSE st[1]
    IN  IF event.type = "MOUSEBUTTONDOWN"
        THEN <<running, _select_particle(particles, event.pos, 1, st[2])>>
        ELSE IF event.type = "MOUSEBUTTONUP"
        THEN <<running, _deselect_particle(st[2])>>
        ELSE <<running, st[2]>>

RECURSIVE handle_events_of(_, _, _)
handle_events_of(st, events, k) ==
    IF k > Len(events) THEN st
    ELSE handle_events_of(handle_event(st, events[k]), events, k + 1)

\* The events of my_physics2.py's loop, which breaks at QUIT.
RECURSIVE mp2_handle_events_of(_, _, _)
mp2_handle_events_of(st, events, k) ==
    IF k > Len(events) THEN st
    ELSE IF events[k].type = "QUIT" THEN <<FALSE, st[2]>>
    ELSE IF events[k].type = "MOUSEBUTTONDOWN"
    THEN mp2_handle_events_of(
             <<st[1], mp2_select_particle(particles, events[k].pos, 1, st[2])>>,
             events, k + 1)
    ELSE mp2_handle_events_of(<<st[1], 0>>, events, k + 1)

\* for event in pygame.event.get(): ...
Events ==
    /\ pc = "events"
    /\ \E events \in EventLists :
          LET st == IF script = "2D_Collisions"
                    THEN handle_events_of(<<_running, _selected_particle>>, events, 1)
                    ELSE mp2_handle_events_of(<<_running, _selected_particle>>, events, 1)
          IN  /\ _running' = st[1]
              /\ _selected_particle' = st[2]
              /\ last' = [op |-> "events", events |-> events]
    /\ pc' = "follow"
    /\ before' = particles
    /\ UNCHANGED <<script, lossless, particles, index, other, raised, frame, calls, frame_start>>

\* _handle_events: if self._selected_particle: ...follow(pygame.mouse.get_pos()).
Follow ==
    /\ pc = "follow"
    /\ IF _selected_particle # 0
       THEN \E mouse \in MousePositions :
              /\ particles' = [particles EXCEPT ![_selected_particle] =
                                  IF script = "2D_Collisions" THEN follow(@, mouse)
                                  ELSE mp2_follow(@, mouse)]
              /\ last' = [op |-> "follow", i |-> _selected_particle, mouse |-> mouse]
       ELSE /\ UNCHANGED particles
            /\ last' = [op |-> "nofollow"]
    /\ before' = particles
    /\ index' = 1
    /\ pc' = IF N >= 1 THEN "move" ELSE "redraw"
    /\ UNCHANGED <<script, lossless, _selected_particle, _running, other, raised,
                   frame, calls, frame_start>>

\* A slip: the inner loop stops one particle short of the end of the list.
NextPair_stops_short(i, j) ==
    IF j < N THEN [pc |-> "collide", index |-> i, other |-> j]
    ELSE IF i + 1 <= N THEN [pc |-> "move", index |-> i + 1, other |-> 0]
    ELSE [pc |-> "redraw", index |-> 0, other |-> 0]

\* The position of the loops once the inner loop of particle i is at j.
NextPair(i, j) ==
    IF j <= N THEN [pc |-> "collide", index |-> i, other |-> j]
    ELSE IF i + 1 <= N THEN [pc |-> "move", index |-> i + 1, other |-> 0]
    ELSE [pc |-> "redraw", index |-> 0, other |-> 0]

\* particle.move(...), and in my_physics2.py particle.bounce(...).
Move ==
    /\ pc = "move"
    /\ particles' = [particles EXCEPT ![index] =
                        IF script = "2D_Collisions" THEN move(@, _width, _height)
                        ELSE mp2_bounce(mp2_move(@), _width, _height)]
    /\ last' = [op |-> "move", i |-> index]
    /\ before' = particles
    /\ LET nxt == NextPair(index, index + 1)
       IN  pc' = nxt.pc /\ index' = nxt.index /\ other' = nxt.other
    /\ UNCHANGED <<script, lossless, _selected_particle, _running, raised, frame, calls, frame_start>>

\* particle.collide(other_particle).
Collide ==
    /\ pc = "collide"
    /\ before' = particles
    /\ last' = [op |-> "collide", i |-> index, j |-> other]
    /\ calls' = Append(calls, <<index, other>>)
    /\ IF script = "2D_Collisions" /\ collide_raises(particles[index], particles[other])
       THEN /\ raised' = "ZeroDivisionError"
            /\ pc' = "raised"
            /\ UNCHANGED <<particles, index, other>>
       ELSE /\ LET r == IF script = "2D_Collisions"
                        THEN collide(particles[index], particles[other])
                        ELSE mp2_collide(particles[index], particles[other])
               IN  particles' = [particles EXCEPT ![index] = r[1], ![other] = r[2]]
            /\ LET nxt == NextPair(index, other + 1)
               IN  pc' = nxt.pc /\ index' = nxt.index /\ other' = nxt.other
            /\ UNCHANGED raised
    /\ UNCHANGED <<script, lossless, _selected_particle, _running, frame, frame_start>>

\* self._redraw_frame(): the frame is drawn; back to the loop test.
Redraw ==
    /\ pc = "redraw"
    /\ pc' = "while"
    /\ frame' = frame + 1
    /\ last' = [op |-> "redraw"]
    /\ before' = particles
    /\ UNCHANGED <<script, lossless, particles, _selected_particle, _running,
                   index, other, raised, calls, frame_start>>

Next == Run \/ While \/ Events \/ Follow \/ Move \/ Collide \/ Redraw

Spec == Init /\ [][Next]_vars


(***************************************************************************)
(* The methods called one at a time: a second specification, in which two  *)
(* particles are drawn as they may be at any point of a frame (the first   *)
(* possibly moved past a wall by its last step, the second anywhere        *)
(* around it) and one method is called on them once.                       *)
(***************************************************************************)
Bases == {<<10, 10>>, <<100, 100>>, <<790, 790>>}
Displacements == {<<0, 0>>, <<-300, -400>>, <<300, 400>>}
Offsets == {<<0, 0>>, <<16, 0>>, <<20, 0>>, <<24, 0>>, <<6, 8>>, <<12, 16>>, <<-16, 0>>}
Builds == {<<10, 1>>, <<10, 3>>, <<16, 1>>}
Velocities == {<<0, East>>, <<1000, East>>, <<2000, West>>, <<1000, UpLeft>>,
               <<1000, DownRight>>}
Clicks == {<<Px(6), Px(8)>>, <<Px(104), Px(100)>>, <<Px(300), Px(300)>>}

InBounds(x, y, radius) ==
    /\ radius <= x /\ x <= WIDTH - radius
    /\ radius <= y /\ y <= HEIGHT - radius

InitCalls ==
    /\ script \in Scripts
    /\ lossless \in BOOLEAN
    /\ \E base \in Bases, moved \in Displacements, offset \in Offsets,
          build \in Builds, v1 \in Velocities, v2 \in Velocities :
          /\ InBounds(base[1] + offset[1], base[2] + offset[2], build[1])
          /\ particles =
               <<[NewParticle(script, base[1], base[2], 1, 10, v1[1], v1[2])
                    EXCEPT !.x = @ + moved[1], !.y = @ + moved[2]],
                 NewParticle(script, base[1] + offset[1], base[2] + offset[2],
                             build[2], build[1], v2[1], v2[2])>>
    /\ _selected_particle \in {0, 2}
    /\ _running = TRUE
    /\ pc = "call"
    /\ index = 0
    /\ other = 0
    /\ raised = "none"
    /\ frame = 0
    /\ last = NoStep
    /\ before = particles
    /\ calls = <<>>
    /\ frame_start = particles

Returned ==
    /\ pc = "call"
    /\ pc' = "returned"
    /\ before' = particles
    /\ UNCHANGED <<script, lossless, _running, index, other, frame, calls, frame_start>>

\* particles[i].collide(particles[j]).
CallCollide ==
    /\ Returned
    /\ \E i \in 1..2, j \in 1..2 :
          /\ i # j
          /\ last' = [op |-> "collide", i |-> i, j |-> j]
          /\ IF script = "2D_Collisions" /\ collide_raises(particles[i], particles[j])
             THEN raised' = "ZeroDivisionError" /\ UNCHANGED particles
             ELSE /\ LET r == IF script = "2D_Collisions"
                              THEN collide(particles[i], particles[j])
                              ELSE mp2_collide(particles[i], particles[j])
                     IN  particles' = [particles EXCEPT ![i] = r[1], ![j] = r[2]]
                  /\ UNCHANGED raised
    /\ UNCHANGED _selected_particle

\* particles[i]._bounce(surface), or in my_physics2.py .bounce((width, height)).
CallBounce ==
    /\ Returned
    /\ \E i \in 1..2 :
          /\ last' = [op |-> "bounce", i |-> i]
          /\ particles' = [particles EXCEPT ![i] =
                              IF script = "2D_Collisions" THEN _bounce(@, _width, _height)
                              ELSE mp2_bounce(@, _width, _height)]
    /\ UNCHANGED <<_selected_particle, raised>>

\* particles[i].move(...).
CallMove ==
    /\ Returned
    /\ \E i \in 1..2 :
          /\ last' = [op |-> "move", i |-> i]
          /\ particles' = [particles EXCEPT ![i] =
                              IF script = "2D_Collisions" THEN move(@, _width, _height)
                              ELSE mp2_move(@)]
    /\ UNCHANGED <<_selected_particle, raised>>

\* particles[i].follow(mouse).
CallFollow ==
    /\ Returned
    /\ \E i \in 1..2, mouse \in Clicks :
          /\ last' = [op |-> "follow", i |-> i, mouse |-> mouse]
          /\ particles' = [particles EXCEPT ![i] =
                              IF script = "2D_Collisions" THEN follow(@, mouse)
                              ELSE mp2_follow(@, mouse)]
    /\ UNCHANGED <<_selected_particle, raised>>

\* self._select_particle(pos).
CallSelect ==
    /\ Returned
    /\ \E pos \in Clicks :
          /\ last' = [op |-> "select", pos |-> pos, selected |-> _selected_particle]
          /\ _selected_particle' =
                IF script = "2D_Collisions"
                THEN _select_particle(particles, pos, 1, _selected_particle)
                ELSE mp2_select_particle(particles, pos, 1, _selected_particle)
    /\ UNCHANGED <<particles, raised>>

NextCalls == CallCollide \/ CallBounce \/ CallMove \/ CallFollow \/ CallSelect

SpecCalls == InitCalls /\ [][NextCalls]_vars

(***************************************************************************)
(* The claims.  A frame (tick) is over when _handle_events has returned,   *)
(* that is when pc = "redraw".                                             *)
(***************************************************************************)
\* The tolerance of the claims that allow one: two thousandths of a pixel.
Epsilon == 2

Contained(p) ==
    /\ p.radius <= p.x /\ p.x <= _width - p.radius
    /\ p.radius <= p.y /\ p.y <= _height - p.radius

\* The distance between two centers, and by how much two particles overlap.
Distance(p, q) == hypot(p.x - q.x, p.y - q.y)
Overlap(p, q) == (p.radius + q.radius) - Distance(p, q)

\* C1 (bounds containment): the particles start with their centers within
\* [radius, dimension - radius] on both axes, and at the end of every frame
\* every center is within [radius, dimension - radius] on both axes.
C1_BoundsContainment ==
    pc = "redraw" => \A k \in 1..N : Contained(particles[k])

\* C2 (no fault in a tick): no step of a frame raises an exception; collide
\* on two particles with the same center completes.
C2_NoFault == raised = "none"

\* C3 (no overlap after a tick): at the end of every frame no two particles
\* overlap by more than Epsilon.
C3_NoOverlapAfterTick ==
    pc = "redraw" =>
        \A i \in 1..N, j \in 1..N : i < j => Overlap(particles[i], particles[j]) <= Epsilon

(***************************************************************************)
(* The claims about one call are stated of SpecCalls: last is the call     *)
(* made, before the particles it was made on, particles its result.        *)
(***************************************************************************)
Collided ==
    /\ pc = "returned" /\ last.op = "collide" /\ raised = "none"
    /\ Overlap(before[last.i], before[last.j]) > 0

DistinctCenters(p, q) == p.x # q.x \/ p.y # q.y

\* C4 (positional correction): after collide on two overlapping particles the
\* distance between the centers is the sum of the radii (to within Epsilon).
C4_SeparatedByOverlap ==
    Collided =>
        Abs(Distance(particles[last.i], particles[last.j])
              - (particles[last.i].radius + particles[last.j].radius)) <= Epsilon

\* C5 (symmetry): for two overlapping particles with distinct centers,
\* a.collide(b) leaves both particles exactly as b.collide(a) does.
C5_CollideSymmetric ==
    (Collided /\ DistinctCenters(before[last.i], before[last.j])) =>
        LET swapped == IF script = "2D_Collisions"
                       THEN collide(before[last.j], before[last.i])
                       ELSE mp2_collide(before[last.j], before[last.i])
        IN  particles[last.i] = swapped[2] /\ particles[last.j] = swapped[1]

\* C5, its case: a collide of two overlapping particles with distinct centers
\* that moved the one and changed the speed of the other.
C5_Witness ==
    /\ Collided /\ DistinctCenters(before[last.i], before[last.j])
    /\ particles[last.i].x # before[last.i].x
    /\ particles[last.j].speed # before[last.j].speed

\* The mass of a particle (my_physics2.py has none: all particles weigh the
\* same) and its velocity in window coordinates.
Mass(p) == IF script = "2D_Collisions" THEN p.mass ELSE 1
Velocity(p) ==
    IF script = "2D_Collisions" THEN <<p.speed_x, p.speed_y>>
    ELSE <<TimesTrig(p.speed, cos(p.angle)), TimesTrig(p.speed, -sin(p.angle))>>
Momentum(ps, axis) ==
    Mass(ps[1]) * Velocity(ps[1])[axis] + Mass(ps[2]) * Velocity(ps[2])[axis]
\* Twice the kinetic energy.
Energy(ps) ==
    Mass(ps[1]) * ps[1].speed * ps[1].speed + Mass(ps[2]) * ps[2].speed * ps[2].speed

\* Both velocities lie along the line through the two centers.
HeadOn(p, q) ==
    /\ DistinctCenters(p, q)
    /\ Velocity(p)[1] * (p.y - q.y) = Velocity(p)[2] * (p.x - q.x)
    /\ Velocity(q)[1] * (p.y - q.y) = Velocity(q)[2] * (p.x - q.x)

\* C6 (momentum): with elasticity and drag 1, a head-on collide leaves the
\* total momentum as it was, each velocity being within Epsilon; with equal
\* masses the two particles exchange their velocities.
C6_MomentumConserved ==
    (Collided /\ lossless /\ HeadOn(before[1], before[2])) =>
        /\ \A axis \in 1..2 :
              Abs(Momentum(particles, axis) - Momentum(before, axis))
                 <= Epsilon * (Mass(before[1]) + Mass(before[2]))
        /\ Mass(before[1]) = Mass(before[2]) =>
              \A axis \in 1..2 :
                 /\ Abs(Velocity(particles[1])[axis] - Velocity(before[2])[axis]) <= Epsilon
                 /\ Abs(Velocity(particles[2])[axis] - Velocity(before[1])[axis]) <= Epsilon

\* Twice the kinetic energy with every speed taken Epsilon lower: the energy
\* less what the rounding of the speeds may have added.
EnergyLessRounding(ps) ==
    Mass(ps[1]) * Max(ps[1].speed - Epsilon, 0) * Max(ps[1].speed - Epsilon, 0)
      + Mass(ps[2]) * Max(ps[2].speed - Epsilon, 0) * Max(ps[2].speed - Epsilon, 0)

\* C7 (energy): with the elasticity coefficient as set or 1, a collide or a
\* bounce does not increase the total kinetic energy (each speed to within
\* Epsilon).
C7_EnergyNotIncreased ==
    (pc = "returned" /\ last.op \in {"collide", "bounce"} /\ raised = "none") =>
        EnergyLessRounding(particles) <= Energy(before)

\* C7, its case: a collide or a bounce that took energy away.
C7_Witness ==
    /\ pc = "returned" /\ last.op \in {"collide", "bounce"} /\ raised = "none"
    /\ Energy(particles) < Energy(before)

\* The walls a particle is at or past, and where _bounce is to put its center:
\* back inside by twice the overshoot.
AtXWall(p) == p.x <= p.radius \/ p.x >= _width - p.radius
AtYWall(p) == p.y <= p.radius \/ p.y >= _height - p.radius
MirroredX(p) ==
    IF p.x <= p.radius THEN 2 * p.radius - p.x
    ELSE IF p.x >= _width - p.radius THEN 2 * (_width - p.radius) - p.x
    ELSE p.x
MirroredY(p) ==
    IF p.y <= p.radius THEN 2 * p.radius - p.y
    ELSE IF p.y >= _height - p.radius THEN 2 * (_height - p.radius) - p.y
    ELSE p.y
Elasticity ==
    IF script = "2D_Collisions" THEN ELASTICITY_COEFFICIENT
    ELSE mp2_ELASTICITY_COEFFICIENT

\* C8 (wall reflection): a bounce of a particle at or past a wall mirrors the
\* velocity on that wall's axis (pi - angle at an x wall, -angle at a y wall),
\* puts the center back inside by twice the overshoot, and, at one wall,
\* multiplies the speed by the elasticity coefficient; a particle strictly
\* inside on both axes is left as it was.
C8_WallReflection ==
    (pc = "returned" /\ last.op = "bounce") =>
        LET p == before[last.i]
            q == particles[last.i]
        IN  /\ q.x = MirroredX(p)
            /\ q.y = MirroredY(p)
            /\ cos(q.angle) = IF AtXWall(p) THEN -cos(p.angle) ELSE cos(p.angle)
            /\ sin(q.angle) = IF AtYWall(p) THEN -sin(p.angle) ELSE sin(p.angle)
            /\ (AtXWall(p) # AtYWall(p)) => q.speed = Times(p.speed, Elasticity)
            /\ (~AtXWall(p) /\ ~AtYWall(p)) => q = p

\* The first particle of ps, from the k-th on, that the point is in; 0 if none.
RECURSIVE FirstContaining(_, _, _)
FirstContaining(ps, point, k) ==
    IF k > Len(ps) THEN 0
    ELSE IF Distance(ps[k], [x |-> point[1], y |-> point[2]]) <= ps[k].radius THEN k
    ELSE FirstContaining(ps, point, k + 1)

\* C9 (selection): _select_particle selects the first particle of the list
\* that the point is in, selects none (the selection stays as it was) when
\* the point is in no particle, and changes no particle.
C9_SelectsFirst ==
    (pc = "returned" /\ last.op = "select") =>
        /\ _selected_particle =
              IF FirstContaining(before, last.pos, 1) # 0
              THEN FirstContaining(before, last.pos, 1)
              ELSE last.selected
        /\ particles = before

\* A frame that begins at rest: every particle within the walls and with no
\* velocity, no two overlapping; and no particle is followed in the frame.
AtRest(p) == p.speed = 0 /\ Velocity(p) = <<0, 0>>
BeganAtRest ==
    /\ pc = "redraw"
    /\ _selected_particle = 0
    /\ \A k \in 1..N : Contained(frame_start[k]) /\ AtRest(frame_start[k])
    /\ \A i \in 1..N, j \in 1..N :
          i < j => Overlap(frame_start[i], frame_start[j]) <= 0
SamePositions ==
    \A k \in 1..N : particles[k].x = frame_start[k].x /\ particles[k].y = frame_start[k].y

\* C10 (rest state): a frame that begins at rest leaves every particle where
\* it was.
C10_RestStateIdempotent == BeganAtRest => SamePositions

\* C10, amended: in 2D_Collisions.py, which has no gravity, a frame that
\* begins at rest leaves every particle where it was.
C10_RestStateIdempotentNoGravity ==
    (BeganAtRest /\ script = "2D_Collisions") => SamePositions

\* C10, its case: a frame of 2D_Collisions.py that began at rest with a
\* particle touching a wall and two particles touching each other, every pair
\* visited, and every particle where it was.
C10_Witness ==
    /\ BeganAtRest /\ script = "2D_Collisions" /\ SamePositions
    /\ Len(calls) = 3
    /\ \E k \in 1..N : frame_start[k].x = frame_start[k].radius
    /\ \E i \in 1..N, j \in 1..N : i < j /\ Overlap(frame_start[i], frame_start[j]) = 0

\* C11 (each pair once): in a frame collide is called on particles i and j
\* only with i < j, on no pair twice, and by the end of the frame on every
\* pair: N * (N - 1) / 2 calls.
C11_EachPairOnce ==
    /\ \A k \in 1..Len(calls) :
          /\ calls[k][1] \in 1..N /\ calls[k][2] \in 1..N
          /\ calls[k][1] < calls[k][2]
    /\ \A k \in 1..Len(calls), l \in 1..Len(calls) : k # l => calls[k] # calls[l]
    /\ pc = "redraw" =>
          /\ Len(calls) = (N * (N - 1)) \div 2
          /\ \A i \in 1..N, j \in 1..N :
                i < j => \E k \in 1..Len(calls) : calls[k] = <<i, j>>

\* C11, its case: a frame of three particles is over and three calls were made.
C11_Witness == pc = "redraw" /\ N = 3 /\ Len(calls) = 3

\* The run has been told to stop: run() has set _running and a QUIT event
\* has cleared it.
Stopping == pc # "run" /\ ~_running

\* C12 (stopped is terminal): once a QUIT event has set _running to False no
\* follow, move (with its bounce) or collide changes a particle any more.
C12_StoppedIsTerminal ==
    (Stopping /\ last.op \in {"follow", "move", "collide"}) => particles = before

\* The particles whose move (and bounce) of the current frame is done, from
\* the position of the loops of _handle_events.
Moved ==
    IF pc = "move" THEN 1..(index - 1)
    ELSE IF pc = "collide" THEN 1..index
    ELSE IF pc = "redraw" THEN 1..N
    ELSE {}

\* C13 (phases of a frame): when collide is about to be called, every particle
\* has done its move and its bounce of the frame.
C13_MovesBeforeCollides == pc = "collide" => Moved = 1..N

\* C14 (corner): one bounce of a particle at or past an x wall and a y wall
\* mirrors both components of its velocity and puts both coordinates back
\* inside by twice the overshoot.
C14_CornerBounce ==
    (pc = "returned" /\ last.op = "bounce"
       /\ AtXWall(before[last.i]) /\ AtYWall(before[last.i])) =>
        LET p == before[last.i]
            q == particles[last.i]
        IN  /\ q.x = MirroredX(p) /\ q.y = MirroredY(p)
            /\ cos(q.angle) = -cos(p.angle) /\ sin(q.angle) = -sin(p.angle)
            /\ Contained(q)

\* C15 (guard): collide on two particles that do not overlap, those that
\* just touch included (overlap = 0), leaves both particles as they were.
C15_NoOverlapNoChange ==
    (pc = "returned" /\ last.op = "collide" /\ raised = "none"
       /\ Overlap(before[last.i], before[last.j]) <= 0) =>
        particles = before

\* How far ten times a followed particle's velocity may be from the vector to
\* the mouse: the rounding of the speed and a thousandth of the distance for
\* that of the direction.
FollowTolerance(dx, dy) == 10 * Epsilon + hypot(dx, dy) \div 1000

\* C16 (follow): in a frame follow is called on the selected particle only and
\* before any particle moves; it leaves the position, points the velocity from
\* the particle to the mouse with a speed of a tenth of the distance, and
\* changes no other particle.  With no particle selected, as after a
\* MOUSEBUTTONUP, no particle is changed.
C16_FollowOnlySelected ==
    /\ last.op = "follow" =>
          LET i == last.i
              p == before[i]
              q == particles[i]
              dx == last.mouse[1] - p.x
              dy == last.mouse[2] - p.y
          IN  /\ i # 0 /\ i = _selected_particle
              /\ pc = "move" /\ index = 1
              /\ q.x = p.x /\ q.y = p.y
              /\ Abs(10 * Velocity(q)[1] - dx) <= FollowTolerance(dx, dy)
              /\ Abs(10 * Velocity(q)[2] - dy) <= FollowTolerance(dx, dy)
              /\ Abs(10 * q.speed - hypot(dx, dy)) <= FollowTolerance(dx, dy)
              /\ \A k \in 1..N : k # i => particles[k] = before[k]
    /\ last.op = "nofollow" => (_selected_particle = 0 /\ particles = before)
    /\ (last.op = "events" /\ last.events # <<>>
          /\ last.events[Len(last.events)].type = "MOUSEBUTTONUP") =>
          _selected_particle = 0

\* C16, its case: one of three particles was selected and follow has given
\* it a new velocity.
C16_Witness ==
    /\ last.op = "follow" /\ N = 3
    /\ particles[last.i].speed > 0
    /\ Velocity(particles[last.i]) # Velocity(before[last.i])
====
